---- MODULE Spec2Model ----
(***************************************************************************)
(* Model of grainLearning: the sequential Monte Carlo filter (smc.py) and  *)
(* the MercuryDPM calibration driver (calibrate.py, simulate.py).          *)
(*                                                                         *)
(* Arithmetic.  The filter works on float64.  The model keeps every        *)
(* probability as an exact fraction num/den of integers and keeps the two  *)
(* float effects the code reacts to: exp() underflows to 0 for a large     *)
(* argument, and 0/0 is NaN (a column whose normalising sum is 0).         *)
(* A normalised column is the record [num |-> <<n_1..n_N>>, den |-> d];    *)
(* entry i has the value n_i/d, and the column is NaN when d = 0.          *)
(* sigma lives on an integer grid whose unit is 1e-5, so that the          *)
(* constructor's sigmaMin = 1.0e-4 is 10 and "*= 1.1" is visible.          *)
(***************************************************************************)
EXTENDS Integers, Sequences, FiniteSets, TLC

(***************************************************************************)
(* Bounds of the model                                                     *)
(***************************************************************************)
\* number of samples N (rows of the parameter table)
NumSamples == 2
\* number of assimilation steps T of the filter inputs
NumSteps == 2
\* fixed-point one of the unnormalised likelihood exp(.) in (0, 1]
Unit == 4
\* scale of the exponent: power = PowScale * r^2 / Sigma_jj
PowScale == 40
\* resolution of the root search on the sigma grid (its xtol)
BrentStep == 5

\* values a simulation can produce at one step, and observation values
SimValues == {0, 1, 2}
ObsValues == {1, 2}
\* effective-sample-size targets, in fifths (ess = e/5)
EssTargets == {4}
\* initial upper limits sigma_max given to the constructor
SigmaMaxInputs == {12, 40}
\* values the operator may type at the "Sigma = " prompt
SigmaTyped == {30, 60}
\* values the unconstrained minimiser may return
SigmaMinimized == {15, 60}

(***************************************************************************)
(* Program constants                                                       *)
(***************************************************************************)
\* self.sigma = 1.0e6 (any value above every sigma_max of the model)
SigmaInit == 1000000
\* self.sigmaMin = 1.0e-4, in grid units of 1e-5
SigmaMin0 == 10
\* ess_min = 0.2 = 1/5: the denominator of the ess targets
EssDen == 5

(***************************************************************************)
(* Helpers                                                                 *)
(***************************************************************************)
RECURSIVE SumSeq(_)
SumSeq(s) == IF s = <<>> THEN 0 ELSE Head(s) + SumSeq(Tail(s))

RECURSIVE ProdSeq(_)
ProdSeq(s) == IF s = <<>> THEN 1 ELSE Head(s) * ProdSeq(Tail(s))

RECURSIVE MaxSeq(_)
MaxSeq(s) == IF Len(s) = 1 THEN s[1]
             ELSE LET m == MaxSeq(Tail(s)) IN IF Head(s) > m THEN Head(s) ELSE m

Sq(x) == x * x

Sgn(x) == IF x > 0 THEN 1 ELSE IF x < 0 THEN -1 ELSE 0

VARIABLES
    \* ---- the smc object ----
    sigma, sigmaMin, sigmaMax,  \* self.sigma, self.sigmaMin, self.sigmaMax
    ess,                        \* self.ess, in fifths
    proposalFile,               \* self.__proposalFile is set
    proposal,                   \* self.proposal: weights q, q[i]/Sum(q)
    proposalModel,              \* the mixture of the proposal file at the samples
    smcSamples,                 \* self.smcSamples[-1]: N rows of parameter values
    yadeData,                   \* self.yadeData[t][i]: simulated value (all channels)
    obsData,                    \* self.obsData[t]: the observation (one channel)
    obsWeights,                 \* self.obsWeights
    obsCtrlData,                \* self.obsCtrlData: the control sequence, or None
    reverse,                    \* the argument reverse of smc.run
    likelihood, posterior,      \* columns per step
    ips, covs,                  \* ensemble mean and coefficient of variation per step
    \* ---- position in runESSLoop and its locals ----
    fpc, evalSigmaMin, evalSigmaMax, ess0, sigmaStar,
    \* ---- the driver process (calibrate) ----
    cfg,                        \* its arguments: cores, nodes, analysis, sigma_max
    dpc,                        \* position in calibrate(); "idle" between invocations
    iteration,                  \* the loop variable of line 67
    sample,                     \* the loop variable of mergeOutputFiles
    runs,                       \* invocations started so far
    log,                        \* what the current invocation has printed so far
    kills,                      \* invocations killed so far
    \* ---- the file system ----
    dataFile,                   \* <output_dir>/Exp/data.txt exists
    statsFiles,                 \* <output_dir>/samples.txt, ips.txt, weights.txt exist
    tables,                     \* <output_dir>/smc_table<k>.txt: rows, <<>> if absent
    cwdTable,                   \* ./smcTable0.txt: rows, <<>> if absent
    simDirs,                    \* <output_dir>/Sim<k>
    scripts,                    \* <output_dir>/Sim<k><c>.sh exist
    jobs,                       \* node mode: solver runs started and not yet finished
    external,                   \* something other than the driver has changed the
                                \* files since the current invocation started
    startFs,                    \* the file system when the invocation started, and
                                \* whether it had been changed from outside before
    \* ---- a parameter table and its readers ----
    tableFile,                  \* the lines of a parameter table file
    readings,                   \* what each reader of the table has returned
    \* ---- two driver processes in one current directory ----
    drivers                     \* per process: position, iteration, the tables of
                                \* its work_dir and the tables it has generated

smcVars == <<sigma, sigmaMin, sigmaMax>>
inputVars == <<ess, proposalFile, proposal, proposalModel, smcSamples, yadeData, obsData, obsWeights,
               obsCtrlData, reverse>>
arrayVars == <<likelihood, posterior, ips, covs>>
loopVars == <<fpc, evalSigmaMin, evalSigmaMax, ess0, sigmaStar>>
filterVars == <<smcVars, inputVars, arrayVars, loopVars>>
procVars == <<cfg, dpc, iteration, sample, runs, log, kills>>
fsVars == <<dataFile, statsFiles, tables, cwdTable, simDirs, scripts, jobs>>
standaloneVars == <<tableFile, readings, drivers>>
driverVars == <<procVars, fsVars, external, startFs, standaloneVars>>
vars == <<filterVars, driverVars>>

(***************************************************************************)
(* The filter: likelihood, posterior update, ensemble statistics           *)
(***************************************************************************)
\* a column of N weights divided by their sum (x /= np.sum(x)); den = 0 is NaN
Normalize(w) == [num |-> w, den |-> SumSeq(w)]

IsNaNCol(c) == c.den = 0

\* scaleCovWithMax=True, the constructor's default, which the driver keeps
scaleCovWithMax == TRUE

numObs == Len(obsData[1])
numSteps == Len(obsData)
numSamples == Len(smcSamples)
Samples == 1..numSamples
Steps == 1..numSteps

\* smc.getCovMatrix: the diagonal of Sigma at step t for coefficient sig
getCovMatrix(sig, t, weights) ==
    [j \in 1..numObs |->
        IF scaleCovWithMax
        THEN sig * weights[j] * Sq(MaxSeq([s \in 1..Len(obsData) |-> obsData[s][j]]))
        ELSE sig * weights[j] * Sq(obsData[t][j])]

\* np.exp(-0.5 * power) on the fixed-point grid: halves per unit of power and
\* underflows to 0
ExpNegHalf(power) == IF power > 30 THEN 0 ELSE Unit \div (2 ^ power)

\* lines 561-573: power = vecDiff . inv(Sigma) . vecDiff for sample i, then exp
SampleLikelihood(Sigma, t, i) ==
    ExpNegHalf(SumSeq([j \in 1..numObs |->
        (PowScale * Sq(obsData[t][j] - yadeData[t][i][j])) \div Sigma[j]]))

\* the likelihood of every sample left as exp gives it, not divided by the sum
LikelihoodColumnRaw(Sigma, t) ==
    [num |-> [i \in Samples |-> SampleLikelihood(Sigma, t, i)], den |-> Unit]

\* lines 568-577: the likelihood of every sample, divided by their sum
LikelihoodColumn(Sigma, t) == Normalize([i \in Samples |-> SampleLikelihood(Sigma, t, i)])

\* smc.getLikelihood: the normalised likelihood column of step t
getLikelihood(sig, t) == LikelihoodColumn(getCovMatrix(sig, t, obsWeights), t)

\* product of the proposal weights of all samples but i: 1/q[i] up to the
\* common factor Prod(q)/Sum(q)
InvProposal(i) == ProdSeq([k \in Samples |-> IF k = i THEN 1 ELSE proposal[k]])

\* Bayes' rule without the division by np.sum(posterior) of line 590
updateRaw(t, lik, prev) ==
    IF t = 1
    THEN [num |-> [i \in Samples |-> lik.num[i] * InvProposal(i)],
          den |-> lik.den * ProdSeq(proposal)]
    ELSE [num |-> [i \in Samples |-> prev.num[i] * lik.num[i]],
          den |-> prev.den * lik.den]

\* Bayes' rule without the test of line 584: every step multiplies the
\* column before it
updateNoFirstStep(t, lik, prev) ==
    Normalize([i \in Samples |-> prev.num[i] * lik.num[i]])

\* smc.update: posterior column of step t from the likelihood column and the
\* posterior column of step t-1 (prev is ignored at the first step)
update(t, lik, prev) ==
    IF t = 1
    THEN Normalize([i \in Samples |-> lik.num[i] * InvProposal(i)])
    ELSE Normalize([i \in Samples |-> prev.num[i] * lik.num[i]])

numParams == Len(smcSamples[1])

\* line 542: ensemble mean of parameter j under the column post, a fraction
EnsembleMean(post, j) ==
    [num |-> SumSeq([i \in Samples |-> smcSamples[i][j] * post.num[i]]),
     den |-> post.den]

\* line 544 without the subtraction of the mean
CoeffVarSqUncentred(post, j, mean) ==
    [num |-> SumSeq([i \in Samples |->
                 Sq(smcSamples[i][j] * post.den) * post.num[i]]),
     den |-> post.den * Sq(mean.num)]

\* lines 544-546: square of the coefficient of variation of parameter j,
\* var / mean^2, as a fraction (the model keeps the square, the code takes
\* np.sqrt of var); den = 0 when the posterior is NaN or the mean is 0
CoeffVarSq(post, j, mean) ==
    [num |-> SumSeq([i \in Samples |->
                 Sq(smcSamples[i][j] * post.den - mean.num) * post.num[i]]),
     den |-> post.den * Sq(mean.num)]

\* lines 538-547: the four results of one step from its two columns
StepStatistics(lik, post, means) ==
    [likelihood |-> lik,
     posterior |-> post,
     ips |-> means,
     covs |-> [j \in 1..numParams |-> CoeffVarSq(post, j, means[j])]]

StepResult(lik, post) ==
    StepStatistics(lik, post, [j \in 1..numParams |-> EnsembleMean(post, j)])

\* lines 534-535: the posterior of step t from its likelihood
StepUpdate(t, lik, prev) == StepResult(lik, update(t, lik, prev))

\* smc.recursiveBayesian: likelihood, posterior, ips, covs of step t
recursiveBayesian(sig, t, prev) == StepUpdate(t, getLikelihood(sig, t), prev)

\* the loop of smc.subRun from step t on: `done` holds the results of the
\* steps before t, and each posterior column is built on the one before it
RECURSIVE FilterSteps(_, _, _)
FilterSteps(sig, t, done) ==
    IF t > numSteps THEN done
    ELSE FilterSteps(sig, t + 1,
            Append(done, recursiveBayesian(sig, t,
                IF t = 1 THEN Normalize([i \in Samples |-> 0])
                ELSE done[t - 1].posterior)))

\* smc.writeBayeStatsToFile: samples.txt, ips.txt and weights.txt are saved
\* into the data directory.  Nothing in calibrate.py or smc.py calls it.
writeBayeStatsToFile == statsFiles' = TRUE

\* smc.getEffectiveSampleSize()[-1] subtracted from self.ess: the value
\* f = ess - ESS/N as a fraction; nan when the posterior column is NaN
EssResidual(post, sumsq) ==
    [nan |-> IsNaNCol(post),
     num |-> ess * numSamples * sumsq - EssDen * Sq(post.den),
     den |-> EssDen * numSamples * sumsq]

\* line 400: the value returned when the last posterior column is post
ReturnValue(post) == EssResidual(post, SumSeq([i \in Samples |-> Sq(post.num[i])]))

\* the value smc.subRun(sig) returns
subRunValue(sig) == ReturnValue(FilterSteps(sig, 1, <<>>)[numSteps].posterior)

\* lines 398-399: the four arrays rewritten with the results of all steps
StoreArrays(steps) ==
    /\ likelihood' = [t \in Steps |-> steps[t].likelihood]
    /\ posterior' = [t \in Steps |-> steps[t].posterior]
    /\ ips' = [t \in Steps |-> steps[t].ips]
    /\ covs' = [t \in Steps |-> steps[t].covs]

\* self.likelihood, self.posterior, self.ips and self.covs as the object
\* holds them, one record per step
Arrays ==
    [t \in Steps |-> [likelihood |-> likelihood[t], posterior |-> posterior[t],
                      ips |-> ips[t], covs |-> covs[t]]]

\* the loop of line 398 run from the last step down to the first: each step
\* reads the posterior column an earlier call has left before it
RECURSIVE subRunLoopReversed(_, _, _)
subRunLoopReversed(sig, t, arr) ==
    IF t > numSteps THEN arr
    ELSE subRunLoopReversed(sig, t + 1,
            [arr EXCEPT ![numSteps + 1 - t] =
                recursiveBayesian(sig, numSteps + 1 - t,
                    arr[IF t = numSteps THEN 1 ELSE numSteps - t].posterior)])

\* lines 398-399: the loop over the steps from t on, in place on the arrays
\* of the object: step t reads self.posterior[:, t - 1] as it is at that
\* moment and overwrites column t of the four arrays (the first step reads
\* no posterior column)
RECURSIVE subRunLoop(_, _, _)
subRunLoop(sig, t, arr) ==
    IF t > numSteps THEN arr
    ELSE subRunLoop(sig, t + 1,
            [arr EXCEPT ![t] =
                recursiveBayesian(sig, t, arr[IF t = 1 THEN 1 ELSE t - 1].posterior)])

\* smc.subRun(sig): self.sigma = sig and the four arrays rewritten in place
subRun(sig) ==
    /\ sigma' = sig
    /\ StoreArrays(subRunLoop(sig, 1, Arrays))

\* the value the subRun call of this step returned: line 400 reads the
\* posterior the call has just written
Returned == ReturnValue(posterior'[numSteps])

\* comparisons of a returned value with 0, as float comparisons (false on NaN)
IsNaN(f) == f.nan
IsPos(f) == ~f.nan /\ f.num > 0
IsNeg(f) == ~f.nan /\ f.num < 0
\* f * g > 0
SameSign(f, g) == ~f.nan /\ ~g.nan /\ Sgn(f.num) * Sgn(g.num) > 0

(***************************************************************************)
(* smc.runESSLoop, one action per evaluation                               *)
(***************************************************************************)
Min2(a, b) == IF a < b THEN a ELSE b
Max2(a, b) == IF a > b THEN a ELSE b

\* sign of a returned value: -1, 0, 1, or 2 for NaN
SignOf(f) == IF f.nan THEN 2 ELSE Sgn(f.num)

\* the points brentq looks at: the bracket in steps of BrentStep, and its end
BracketPoints(lo, hi) ==
    [k \in 1..((hi - lo + BrentStep - 1) \div BrentStep + 1) |->
        Min2(lo + (k - 1) * BrentStep, hi)]

Crossings(pts, sgn) ==
    {pts[k] : k \in {k \in 1..Len(pts) :
        \/ sgn[k] = 0
        \/ k < Len(pts) /\ sgn[k] * sgn[k + 1] = -1
        \/ k > 1 /\ sgn[k] * sgn[k - 1] = -1}}

RootsOrEnds(pts, crossing) == IF crossing = {} THEN {pts[1], pts[Len(pts)]} ELSE crossing

RootsAmong(pts) ==
    RootsOrEnds(pts, Crossings(pts, [k \in 1..Len(pts) |-> SignOf(subRunValue(pts[k]))]))

\* scipy.optimize.brentq(self.subRun, a, b, xtol): the points of the bracket
\* where f is 0 or changes sign towards a neighbour; when f is NaN at an end
\* no sign change need exist and the result is an end of the bracket
brentq(a, b) == RootsAmong(BracketPoints(Min2(a, b), Max2(a, b)))

\* line 408: evalSigmaMin = self.subRun(self.sigmaMin)
ESS_EvalMin ==
    /\ fpc = "start"
    /\ subRun(sigmaMin)
    /\ evalSigmaMin' = Returned
    /\ fpc' = "evalMax"
    /\ UNCHANGED <<sigmaMin, sigmaMax, inputVars, evalSigmaMax, ess0, sigmaStar>>
    /\ UNCHANGED driverVars

\* line 409: evalSigmaMax = self.subRun(self.sigmaMax)
ESS_EvalMax ==
    /\ fpc = "evalMax"
    /\ subRun(sigmaMax)
    /\ evalSigmaMax' = Returned
    /\ fpc' = "relax"
    /\ UNCHANGED <<sigmaMin, sigmaMax, inputVars, evalSigmaMin, ess0, sigmaStar>>
    /\ UNCHANGED driverVars

\* sigmaMin *= 1.1 on the grid
RaiseSigmaMin(s) == (s * 11) \div 10

\* lines 411-413: while isnan(evalSigmaMin): raise sigmaMin by 10% and retry
ESS_Relax ==
    /\ fpc = "relax"
    /\ IsNaN(evalSigmaMin)
    /\ sigmaMin' = RaiseSigmaMin(sigmaMin)
    /\ subRun(RaiseSigmaMin(sigmaMin))
    /\ evalSigmaMin' = Returned
    /\ UNCHANGED <<sigmaMax, inputVars, fpc, evalSigmaMax, ess0, sigmaStar>>
    /\ UNCHANGED driverVars

\* lines 415-419: same sign at both ends: evaluate at sigmaMin; then branch on
\* the proposal file
ESS_SameSign ==
    /\ fpc = "relax"
    /\ ~IsNaN(evalSigmaMin)
    /\ IF SameSign(evalSigmaMin, evalSigmaMax)
       THEN subRun(sigmaMin)
       ELSE UNCHANGED <<sigma, arrayVars>>
    /\ fpc' = IF proposalFile THEN "minimize" ELSE "reinit"
    /\ UNCHANGED <<sigmaMin, sigmaMax, inputVars, evalSigmaMin, evalSigmaMax, ess0, sigmaStar>>
    /\ UNCHANGED driverVars

\* lines 421-423, 429-430: ess0 = self.subRun(self.sigmaMax); prompt when
\* ess0 > 0, leave the loop otherwise
ESS_Reinit ==
    /\ fpc = "reinit"
    /\ subRun(sigmaMax)
    /\ ess0' = Returned
    /\ fpc' = IF IsPos(Returned) THEN "prompt" ELSE "solve"
    /\ UNCHANGED <<sigmaMin, sigmaMax, inputVars, evalSigmaMin, evalSigmaMax, sigmaStar>>
    /\ UNCHANGED driverVars

\* lines 424-428: self.sigmaMax = float(input(...)): the operator types a value
ESS_Prompt ==
    /\ fpc = "prompt"
    /\ \E typed \in SigmaTyped : sigmaMax' = typed
    /\ fpc' = "reinit"
    /\ UNCHANGED <<sigma, sigmaMin, inputVars, arrayVars, evalSigmaMin, evalSigmaMax, ess0, sigmaStar>>
    /\ UNCHANGED driverVars

\* lines 424-428: input() on a closed standard input raises EOFError
ESS_PromptEOF ==
    /\ fpc = "prompt"
    /\ fpc' = "raised"
    /\ UNCHANGED <<smcVars, inputVars, arrayVars, evalSigmaMin, evalSigmaMax, ess0, sigmaStar>>
    /\ UNCHANGED driverVars

\* lines 432-439: choose sigma on the plain branch.  The calls made are
\* subRun(sigmaMin), then subRun(sigmaMax) unless the first was negative, then
\* brentq's own; `last` is the point of the last evaluation made: brentq
\* evaluates both ends first and may or may not end on the root it returns.
ESS_Solve ==
    /\ fpc = "solve"
    /\ IF IsNeg(subRunValue(sigmaMin))
       THEN /\ sigmaStar' = sigmaMin
            /\ subRun(sigmaMin)
            /\ fpc' = "commit"
       ELSE IF IsPos(subRunValue(sigmaMax))
       THEN \* raise Warning("ess(sigmaMax)<essMin; ...")
            /\ sigmaStar' = sigmaStar
            /\ subRun(sigmaMax)
            /\ fpc' = "raised"
       ELSE \E root \in brentq(sigmaMin, sigmaMax) :
            \E last \in {sigmaMax, root} :
                /\ sigmaStar' = root
                /\ subRun(last)
                /\ fpc' = "commit"
    /\ UNCHANGED <<sigmaMin, sigmaMax, inputVars, evalSigmaMin, evalSigmaMax, ess0>>
    /\ UNCHANGED driverVars

\* the last evaluation without line 451
ESS_CommitKeepBound ==
    /\ fpc = "commit"
    /\ subRun(sigmaStar)
    /\ fpc' = "returned"
    /\ UNCHANGED <<sigmaMin, sigmaMax, inputVars, evalSigmaMin, evalSigmaMax, ess0, sigmaStar>>
    /\ UNCHANGED driverVars

\* lines 440, 451: self.subRun(sigma); self.sigmaMax = sigma
ESS_Commit ==
    /\ fpc = "commit"
    /\ subRun(sigmaStar)
    /\ sigmaMax' = sigmaStar
    /\ fpc' = "returned"
    /\ UNCHANGED <<sigmaMin, inputVars, evalSigmaMin, evalSigmaMax, ess0, sigmaStar>>
    /\ UNCHANGED driverVars

\* line 443-444: soln = optimize.minimize(self.subRun, x0=...); sigma = soln.x.
\* The minimiser is unconstrained: it may return any value, and the last
\* evaluation it makes (for a value or for a finite-difference gradient) need
\* not be at the point it returns.
ESS_Minimize ==
    /\ fpc = "minimize"
    /\ \E x \in SigmaMinimized, last \in SigmaMinimized :
        /\ sigmaStar' = x
        /\ subRun(last)
    /\ fpc' = "afterMin"
    /\ UNCHANGED <<sigmaMin, sigmaMax, inputVars, evalSigmaMin, evalSigmaMax, ess0>>
    /\ UNCHANGED driverVars

\* lines 445-447, 451 with ess0 taken from the minimiser's result (soln.fun)
\* instead of a new evaluation at sigma
ESS_AfterMinNoEval ==
    /\ fpc = "afterMin"
    /\ ess0' = subRunValue(sigmaStar)
    /\ IF IsNeg(subRunValue(sigmaStar))
       THEN fpc' = "rebracket" /\ sigmaMax' = sigmaMax
       ELSE fpc' = "returned" /\ sigmaMax' = sigmaStar
    /\ UNCHANGED <<sigma, sigmaMin, inputVars, arrayVars, evalSigmaMin, evalSigmaMax, sigmaStar>>
    /\ UNCHANGED driverVars

\* lines 445-447, 451: ess0 = self.subRun(sigma); without a follow-up only
\* self.sigmaMax = sigma is left to do
ESS_AfterMin ==
    /\ fpc = "afterMin"
    /\ subRun(sigmaStar)
    /\ ess0' = Returned
    /\ IF IsNeg(Returned)
       THEN fpc' = "rebracket" /\ sigmaMax' = sigmaMax
       ELSE fpc' = "returned" /\ sigmaMax' = sigmaStar
    /\ UNCHANGED <<sigmaMin, inputVars, evalSigmaMin, evalSigmaMax, sigmaStar>>
    /\ UNCHANGED driverVars

\* lines 448-451: sigma = brentq(self.subRun, self.sigmaMin, self.sigma);
\* self.subRun(sigma); self.sigmaMax = sigma.  brentq raises ValueError when
\* f(sigmaMin) and f(self.sigma) have the same sign.
ESS_Rebracket ==
    /\ fpc = "rebracket"
    /\ IF SameSign(subRunValue(sigmaMin), subRunValue(sigma))
       THEN /\ fpc' = "raised"
            /\ UNCHANGED <<sigma, sigmaMax, arrayVars, sigmaStar>>
       ELSE \E root \in brentq(sigmaMin, sigma) :
                /\ sigmaStar' = root
                /\ subRun(root)
                /\ sigmaMax' = root
                /\ fpc' = "returned"
    /\ UNCHANGED <<sigmaMin, inputVars, evalSigmaMin, evalSigmaMax, ess0>>
    /\ UNCHANGED driverVars

runESSLoop ==
    \/ ESS_EvalMin
    \/ ESS_EvalMax
    \/ ESS_Relax
    \/ ESS_SameSign
    \/ ESS_Reinit
    \/ ESS_Prompt
    \/ ESS_PromptEOF
    \/ ESS_Solve
    \/ ESS_Commit
    \/ ESS_Minimize
    \/ ESS_AfterMin
    \/ ESS_Rebracket

\* a zero array of np.zeros: every entry 0/1
ZeroCol(n) == [num |-> [i \in 1..n |-> 0], den |-> 1]

\* time series a simulation may produce for one sample: constant, or the
\* least value at the first step and the greatest afterwards, or the reverse
SimProfiles ==
    {[t \in 1..NumSteps |-> v] : v \in SimValues \ {0}}
        \cup {[t \in 1..NumSteps |-> IF t = 1 THEN 0 ELSE 2],
              [t \in 1..NumSteps |-> IF t = 1 THEN 2 ELSE 0]}

\* observation series: constant, or rising from the first step on
ObsProfiles ==
    {[t \in 1..NumSteps |-> <<v>>] : v \in ObsValues}
        \cup {[t \in 1..NumSteps |-> <<IF t = 1 THEN 1 ELSE 2>>]}

\* a value returned by subRun that was never assigned
NoValue == [nan |-> FALSE, num |-> 0, den |-> 1]

\* what a proposal file gives at the samples: the densities
\* np.exp(score_samples(samples)), 0 where exp underflows, and the volumes of
\* the Voronoi cells, -1 for an open cell (voronoiVols, lines 257-267)
DensityValues == {0, 1, 2}
VolumeValues == {-1, 1, 2}
ProposalModels(n) == [density : [1..n -> DensityValues], vols : [1..n -> VolumeValues]]

\* no proposal file
NoModel == [density |-> <<>>, vols |-> <<>>]

\* Python's min() of a non-empty collection
MinOf(S) == CHOOSE x \in S : \A y \in S : x <= y

\* smc.loadProposalFromFile, lines 237-244: the weights it returns (they are
\* divided by their sum, line 244), or raised when min() is given the empty
\* list of positive entries and raises ValueError
loadProposalFromFile(model) ==
    LET n == Len(model.density)
        reweighted == [i \in 1..n |-> model.density[i] * model.vols[i]]
        positive == {reweighted[i] : i \in {k \in 1..n : reweighted[k] > 0}}
    IN  IF \A i \in 1..n : reweighted[i] < 0
        THEN [raised |-> FALSE, q |-> [i \in 1..n |-> 1]]
        ELSE IF positive = {}
        THEN [raised |-> TRUE, q |-> reweighted]
        ELSE [raised |-> FALSE,
              q |-> [i \in 1..n |-> IF reweighted[i] < 0 THEN MinOf(positive)
                                                       ELSE reweighted[i]]]

\* Python's None: the control data getObsDataFromFile returns for an
\* observation file without keys (line 710)
None == <<>>

\* smc.__init__, smc.initParams, smc.initialize and the data loaded by smc.run:
\* the fields of a filter about to enter runESSLoop
NewFilter(sigmaMaxArg, essArg, weights, samples, data, obs, pf, q) ==
    [sigma |-> SigmaInit,
     sigmaMin |-> SigmaMin0,
     sigmaMax |-> sigmaMaxArg,
     ess |-> essArg,
     obsWeights |-> weights,
     smcSamples |-> samples,
     yadeData |-> data,
     obsData |-> obs,
     obsCtrlData |-> None,
     reverse |-> FALSE,
     proposalFile |-> pf,
     proposal |-> q,
     proposalModel |-> NoModel,
     likelihood |-> [t \in 1..Len(obs) |-> ZeroCol(Len(samples))],
     posterior |-> [t \in 1..Len(obs) |-> ZeroCol(Len(samples))],
     ips |-> [t \in 1..Len(obs) |-> [j \in 1..Len(samples[1]) |-> [num |-> 0, den |-> 1]]],
     covs |-> [t \in 1..Len(obs) |-> [j \in 1..Len(samples[1]) |-> [num |-> 0, den |-> 1]]]]

\* the filter variables hold the fields f and the object is at position pc
FilterAt(f, pc) ==
    /\ sigma = f.sigma /\ sigmaMin = f.sigmaMin /\ sigmaMax = f.sigmaMax
    /\ ess = f.ess /\ obsWeights = f.obsWeights /\ smcSamples = f.smcSamples
    /\ yadeData = f.yadeData /\ obsData = f.obsData
    /\ obsCtrlData = f.obsCtrlData /\ reverse = f.reverse
    /\ proposalFile = f.proposalFile /\ proposal = f.proposal
    /\ proposalModel = f.proposalModel
    /\ likelihood = f.likelihood /\ posterior = f.posterior
    /\ ips = f.ips /\ covs = f.covs
    /\ fpc = pc
    /\ evalSigmaMin = NoValue /\ evalSigmaMax = NoValue /\ ess0 = NoValue
    /\ sigmaStar = 0

\* the filter variables hold the fields f and runESSLoop has not started
FilterIs(f) == FilterAt(f, "start")

\* a new filter object replaces the old one
FilterBecomes(f) ==
    /\ sigma' = f.sigma /\ sigmaMin' = f.sigmaMin /\ sigmaMax' = f.sigmaMax
    /\ ess' = f.ess /\ obsWeights' = f.obsWeights /\ smcSamples' = f.smcSamples
    /\ yadeData' = f.yadeData /\ obsData' = f.obsData
    /\ obsCtrlData' = f.obsCtrlData /\ reverse' = f.reverse
    /\ proposalFile' = f.proposalFile /\ proposal' = f.proposal
    /\ proposalModel' = f.proposalModel
    /\ likelihood' = f.likelihood /\ posterior' = f.posterior
    /\ ips' = f.ips /\ covs' = f.covs
    /\ fpc' = "start"
    /\ evalSigmaMin' = NoValue /\ evalSigmaMax' = NoValue /\ ess0' = NoValue
    /\ sigmaStar' = 0

\* the parameter tables a filter is run with: one parameter, rising from 1
\* or from 0
SampleTables(n) == {[i \in 1..n |-> <<i>>], [i \in 1..n |-> <<i - 1>>]}

\* the proposal files a filter is run with: positive densities, every cell
\* open, or every cell closed and the first sample twice as dense
FilterModels(pf, n) ==
    IF pf
    THEN {[density |-> [i \in 1..n |-> 1], vols |-> [i \in 1..n |-> -1]],
          [density |-> [i \in 1..n |-> IF i = 1 THEN 2 ELSE 1], vols |-> [i \in 1..n |-> 1]]}
    ELSE {NoModel}

\* lines 205-211: the proposal weights, from the file or uniform
initialProposal(pf, model, n) ==
    IF pf THEN loadProposalFromFile(model).q ELSE [i \in 1..n |-> 1]

\* the simulation tensor of keyless stand-alone mode (lines 496-498): the
\* series of sample i in every channel
TensorOf(series, nSteps, nObs) ==
    [t \in 1..nSteps |-> [i \in 1..Len(series) |-> [j \in 1..nObs |-> series[i][t]]]]

(***************************************************************************)
(* Properties of the filter                                                *)
(***************************************************************************)
\* the likelihoods of step t as exp gives them under the current sigma
RawLikelihood(t) ==
    [i \in Samples |-> SampleLikelihood(getCovMatrix(sigma, t, obsWeights), t, i)]

\* the product over the steps up to t of the raw likelihood of sample i
RECURSIVE RawWeight(_, _)
RawWeight(t, i) == IF t = 0 THEN 1 ELSE RawLikelihood(t)[i] * RawWeight(t - 1, i)

SumsToOne(col) == col.den # 0 /\ SumSeq(col.num) = col.den

C2_Original ==
    fpc # "start" => \A t \in Steps : SumsToOne(likelihood[t])

\* C2: after every subRun the likelihood column of step t sums to 1 when exp
\* is non-zero for some sample, and is NaN (0/0) when it underflows to 0 for
\* every sample
C2_LikelihoodNormalized ==
    fpc # "start" =>
        \A t \in Steps :
            IF \E i \in Samples : RawLikelihood(t)[i] > 0
            THEN SumsToOne(likelihood[t]) /\ likelihood[t].num = RawLikelihood(t)
            ELSE IsNaNCol(likelihood[t])

\* a run that returned with likelihood columns of unequal non-zero entries
C2_Witness ==
    /\ fpc = "returned"
    /\ \A t \in Steps : SumsToOne(likelihood[t])
    /\ \E t \in Steps : \E i, k \in Samples :
            likelihood[t].num[i] > likelihood[t].num[k] /\ likelihood[t].num[k] > 0

\* C3 as stated: sigmaMin <= sigma <= sigmaMax and sigmaMin > 0 in every
\* state from construction to the return of runESSLoop
C3_Original ==
    sigmaMin <= sigma /\ sigma <= sigmaMax /\ sigmaMin > 0

\* C3: sigmaMin is positive and never below its initial value in every state;
\* on the plain branch a solution found in an ordered bracket lies in
\* [sigmaMin, sigmaMax]; when runESSLoop has returned, sigma = sigmaMax
C3_SigmaBounds ==
    /\ sigmaMin >= SigmaMin0 /\ sigmaMin > 0
    /\ (fpc = "commit" /\ sigmaMin <= sigmaMax) => (sigmaMin <= sigmaStar /\ sigmaStar <= sigmaMax)
    /\ fpc = "returned" => (sigma = sigmaMax /\ sigma = sigmaStar)

\* a plain run that returned a sigma strictly inside the bracket it searched
C3_Witness ==
    /\ fpc = "returned"
    /\ ~proposalFile
    /\ sigmaMin < sigma
    /\ sigma = sigmaMax
    /\ ~IsNaN(evalSigmaMin)

\* C18: when all proposal weights are equal, after every subRun the first
\* posterior column is the first likelihood column, entry by entry (both
\* are NaN when the likelihood of every sample underflows)
C18_UniformFirstStep ==
    (fpc # "start" /\ \A i, k \in Samples : proposal[i] = proposal[k]) =>
        IF IsNaNCol(likelihood[1])
        THEN IsNaNCol(posterior[1])
        ELSE /\ ~IsNaNCol(posterior[1])
             /\ \A i \in Samples :
                    posterior[1].num[i] * likelihood[1].den
                        = likelihood[1].num[i] * posterior[1].den

\* a run with equal proposal weights that returned with a first likelihood
\* column that differs between two samples
C18_Witness ==
    /\ fpc = "returned"
    /\ \A i, k \in Samples : proposal[i] = proposal[k]
    /\ ~IsNaNCol(likelihood[1])
    /\ \E i, k \in Samples :
        /\ likelihood[1].num[i] > likelihood[1].num[k]
        /\ likelihood[1].num[k] > 0
        /\ posterior[1].num[i] > posterior[1].num[k]

\* C19 as stated: with one sample every subRun leaves posterior 1 and
\* coefficient of variation 0 at every step
C19_Original ==
    (numSamples = 1 /\ fpc # "start") =>
        \A t \in Steps :
            /\ SumsToOne(posterior[t]) /\ posterior[t].num[1] = posterior[t].den
            /\ \A j \in 1..numParams : covs[t][j].num = 0 /\ covs[t][j].den # 0

\* C19: with one sample, after every subRun, at every step t: the posterior is 1 when the likelihood of the sample has not
\* underflowed at any step up to t, and NaN when it has; the coefficient of
\* variation of a parameter is 0 when the posterior is 1 and the parameter
\* value is not 0, and NaN otherwise
C19_SingleSample ==
    (numSamples = 1 /\ fpc # "start") =>
        \A t \in Steps :
            IF RawWeight(t, 1) > 0
            THEN /\ SumsToOne(posterior[t]) /\ posterior[t].num[1] = posterior[t].den
                 /\ \A j \in 1..numParams :
                        IF smcSamples[1][j] # 0
                        THEN covs[t][j].num = 0 /\ covs[t][j].den # 0
                        ELSE covs[t][j].den = 0
            ELSE /\ IsNaNCol(posterior[t])
                 /\ \A j \in 1..numParams : covs[t][j].den = 0

\* a run with one sample of non-zero parameter value that returned with
\* posterior 1 and coefficient of variation 0 at the last step
C19_Witness ==
    /\ numSamples = 1
    /\ fpc = "returned"
    /\ smcSamples[1][1] # 0
    /\ RawWeight(numSteps, 1) > 0
    /\ posterior[numSteps].num[1] = posterior[numSteps].den
    /\ covs[numSteps][1].num = 0 /\ covs[numSteps][1].den # 0

\* C21: after any sequence of earlier subRun calls, the arrays the last call
\* subRun(sigma) has left are those a first call with the same sigma leaves on
\* a new object, and every value a call returned is the value the first call
\* with that sigma returns
C21_SubRunPure ==
    fpc # "start" =>
        /\ Arrays = FilterSteps(sigma, 1, <<>>)
        /\ evalSigmaMin = subRunValue(sigmaMin)
        /\ fpc = "relax" => evalSigmaMax = subRunValue(sigmaMax)
        /\ fpc \in {"prompt", "solve"} => ess0 = subRunValue(sigmaMax)
        /\ fpc = "rebracket" => ess0 = subRunValue(sigmaStar)

\* a run that returned at a sigma other than sigmaMin, after the calls at
\* sigmaMin and sigmaMax, with arrays that differ from those of sigmaMin
C21_Witness ==
    /\ fpc = "returned"
    /\ sigma # sigmaMin
    /\ Arrays = FilterSteps(sigma, 1, <<>>)
    /\ Arrays # FilterSteps(sigmaMin, 1, <<>>)
    /\ \E t \in Steps : posterior[t] # FilterSteps(sigmaMin, 1, <<>>)[t].posterior

\* C22: when runESSLoop has returned, on the plain branch or the branch of
\* the proposal file, with or without the same-sign evaluation at sigmaMin
\* and with or without the second root search, sigma and sigmaMax are the
\* chosen sigma and the four arrays are those of the update at that sigma
C22_CommittedAtChosenSigma ==
    fpc = "returned" =>
        /\ sigma = sigmaStar
        /\ sigmaMax = sigmaStar
        /\ likelihood = [t \in Steps |-> FilterSteps(sigmaStar, 1, <<>>)[t].likelihood]
        /\ posterior = [t \in Steps |-> FilterSteps(sigmaStar, 1, <<>>)[t].posterior]
        /\ ips = [t \in Steps |-> FilterSteps(sigmaStar, 1, <<>>)[t].ips]
        /\ covs = [t \in Steps |-> FilterSteps(sigmaStar, 1, <<>>)[t].covs]

\* a run with a proposal file that returned the minimiser's point, which is
\* neither end of the bracket, after the same-sign evaluation at sigmaMin
C22_Witness ==
    /\ fpc = "returned"
    /\ proposalFile
    /\ SameSign(evalSigmaMin, evalSigmaMax)
    /\ sigmaStar \in SigmaMinimized
    /\ sigmaStar # sigmaMin /\ sigmaStar \notin SigmaMaxInputs
    /\ sigma = sigmaStar /\ sigmaMax = sigmaStar
    /\ posterior # [t \in Steps |-> FilterSteps(sigmaMin, 1, <<>>)[t].posterior]

\* the densities of the proposal file times the volumes of the cells
Reweighted == [i \in Samples |-> proposalModel.density[i] * proposalModel.vols[i]]

\* C17 as stated: initialize with a proposal file returns, for every vector
\* of densities and volumes, weights with a positive sum: all equal when every
\* reweighted entry is negative, otherwise the reweighted entries with each
\* negative one replaced by the least positive one
C17_Original ==
    (proposalFile /\ fpc # "initialize") =>
        /\ fpc # "ValueError"
        /\ SumSeq(proposal) > 0
        /\ IF \A i \in Samples : Reweighted[i] < 0
           THEN \A i \in Samples : proposal[i] = 1
           ELSE \A i \in Samples :
                    IF Reweighted[i] < 0
                    THEN /\ \E k \in Samples : Reweighted[k] = proposal[i]
                         /\ \A k \in Samples : Reweighted[k] > 0 => proposal[i] <= Reweighted[k]
                    ELSE proposal[i] = Reweighted[i]

\* C5 as stated: when f(sigmaMin) and f(sigmaMax) have the same sign,
\* runESSLoop returns with sigma = sigmaMin and raises nothing
C5_Original ==
    (fpc \in {"returned", "raised"} /\ SameSign(evalSigmaMin, evalSigmaMax)) =>
        (fpc = "returned" /\ sigma = sigmaMin)

(***************************************************************************)
(* A parameter table file and the code that reads it                       *)
(***************************************************************************)
\* the greatest number of lines of a table file
MaxLines == 3

\* a line is a comment (it starts with '!', as the header line does), is
\* blank, or holds the key and the parameter values of a sample
CommentLine == [kind |-> "comment", params |-> <<>>]
BlankLine == [kind |-> "blank", params |-> <<>>]
RowLine(params) == [kind |-> "row", params |-> params]

\* values of the parameter in the rows of a table file
RowValues == {1, 2}
TableLines == {CommentLine, BlankLine} \cup {RowLine(<<v>>) : v \in RowValues}
TableFiles == UNION {[1..n -> TableLines] : n \in 1..MaxLines}

\* tools.writeToTable: the header line, then one line per sample in row order
writeToTable(rows) == <<CommentLine>> \o [i \in 1..Len(rows) |-> RowLine(rows[i])]

IsRow(line) == line.kind = "row"

\* np.genfromtxt(paramsFile, comments='!'): the lines that hold data; comment
\* lines and blank lines are skipped wherever they are
genfromtxt(file) == SelectSeq(file, IsRow)

\* the parsed lines as the rows of the two-dimensional array they are taken
\* for
RowsOf(lines) == [i \in 1..Len(lines) |-> lines[i].params]

\* smc.getParamsFromTable, line 663: genfromtxt(...)[:, -numParams:]; the
\* result of genfromtxt has two dimensions only from two data lines on, and
\* the index raises IndexError on the one-dimensional array of fewer
getParamsFromTable(file) ==
    IF Len(genfromtxt(file)) < 2
    THEN [done |-> TRUE, raised |-> TRUE, lines |-> <<>>, count |-> 0]
    ELSE [done |-> TRUE, raised |-> FALSE, lines |-> genfromtxt(file),
          count |-> Len(genfromtxt(file))]

\* file.readlines() without the readline() before it: every line of the file
AllLines(file) == file

\* simulate.py lines 63-65 and 125-127: file.readline() takes the first line,
\* whatever it holds, and file.readlines() gives every line after it
LinesAfterFirst(file) == Tail(file)

\* runSimulations, lines 71-76: paramStringTemplate % params with the fields
\* of the line after its first; a line without the fields of a sample (blank
\* or comment) raises TypeError
runSimulations(file) ==
    [done |-> TRUE,
     raised |-> \E i \in 1..Len(LinesAfterFirst(file)) : ~IsRow(LinesAfterFirst(file)[i]),
     lines |-> LinesAfterFirst(file),
     count |-> Len(LinesAfterFirst(file))]

\* mergeOutputFiles, lines 130-152: params[0] of a line without fields
\* raises IndexError, and for a comment line no solver output is found
mergeOutputFiles(file) ==
    [done |-> TRUE,
     raised |-> \E i \in 1..Len(LinesAfterFirst(file)) : ~IsRow(LinesAfterFirst(file)[i]),
     lines |-> LinesAfterFirst(file),
     count |-> Len(LinesAfterFirst(file))]

\* numberOfCommands, lines 114-120, for one executable: the number of lines
\* less one
numberOfCommands(file) ==
    [done |-> TRUE, raised |-> FALSE, lines |-> <<>>, count |-> Len(file) - 1]

Readers == {"getParamsFromTable", "runSimulations", "mergeOutputFiles", "numberOfCommands"}

\* no reader has been called
NotRead == [reader \in Readers |-> [done |-> FALSE, raised |-> FALSE, lines |-> <<>>, count |-> 0]]

\* the two processes of the second driver model
DriverIds == {1, 2}

\* no second driver model
NoDrivers == [d \in DriverIds |-> [pc |-> "none", iteration |-> 0, tables |-> <<>>, made |-> {}]]

\* the variables of the models that stand alone, in the other models
NoStandalone ==
    /\ tableFile = <<>>
    /\ readings = NotRead
    /\ drivers = NoDrivers

(***************************************************************************)
(* The driver: calibrate() over a working directory                        *)
(***************************************************************************)
\* n_iterations
NumIterations == 2
\* how often the driver is invoked
MaxRuns == 2
\* how often an invocation is killed
MaxKills == 1

Iterations == 0..(NumIterations - 1)
Keys == 1..NumSamples

\* values a resampled parameter may take
ParamValues == {1, 2}

\* the flattened measurement data written to Exp/data.txt, read back by
\* getObsDataFromFile as one channel with one step per component
MeasurementData == [t \in 1..NumSteps |-> <<1>>]
\* the flattened measurement weights handed to smc(): one per component
MeasurementWeights == [t \in 1..NumSteps |-> t]

\* the table of the Halton bootstrap: deterministic, one row per sample
HaltonTable == [i \in Keys |-> <<i>>]

\* tables a draw from the fitted mixture may give
ResampledTables == {[i \in Keys |-> <<v>>] : v \in ParamValues}

\* the first line of the output file of a solver run with the parameters of
\* row (the identity solver of the calibration examples)
SolverOutput(row) == [t \in 1..NumSteps |-> row[1]]

NoFiles == [key \in Keys |-> <<>>]
NoDir == [exists |-> FALSE, runsh |-> FALSE, raw |-> NoFiles, data |-> NoFiles]
EmptyDir == [NoDir EXCEPT !.exists = TRUE]
NoLog == [gateway |-> {}, filter |-> {}]

FileSystem == <<dataFile, tables, cwdTable, simDirs, scripts, statsFiles>>

InitDriverVars ==
    /\ cfg \in [cores : {0, 1}, nodes : BOOLEAN, analysis : BOOLEAN, sigma_max : {40},
                ess_min : EssTargets]
    /\ dpc = "idle"
    /\ iteration = 0
    /\ sample = 1
    /\ runs = 0
    /\ log = NoLog
    /\ kills = 0
    /\ dataFile = FALSE
    /\ statsFiles = FALSE
    /\ tables = [k \in 0..NumIterations |-> <<>>]
    /\ cwdTable = <<>>
    /\ simDirs = [k \in Iterations |-> NoDir]
    /\ scripts = [k \in Iterations |-> FALSE]
    /\ jobs = {}
    /\ external = FALSE
    /\ startFs = [files |-> <<>>, changed |-> FALSE]
    /\ NoStandalone

\* calibrate(), lines 56-62: Exp/ is made and data.txt written
D_Start ==
    /\ dpc = "idle"
    /\ runs < MaxRuns
    /\ runs' = runs + 1
    /\ dataFile' = TRUE
    /\ log' = NoLog
    /\ iteration' = 0
    /\ startFs' = [files |-> FileSystem, changed |-> external]
    /\ external' = FALSE
    /\ dpc' = "initTable"
    /\ UNCHANGED <<filterVars, cfg, standaloneVars, kills, sample, statsFiles, tables, cwdTable, simDirs, scripts, jobs>>

\* lines 76-82: the first table is generated as ./smcTable0.txt
D_InitTable ==
    /\ dpc = "initTable"
    /\ IF iteration = 0 /\ tables[0] = <<>>
       THEN cwdTable' = HaltonTable /\ dpc' = "moveInitTable"
       ELSE cwdTable' = cwdTable /\ dpc' = "checkSim"
    /\ UNCHANGED <<filterVars, cfg, standaloneVars, kills, iteration, sample, runs, log, dataFile, statsFiles, tables,
                   simDirs, scripts, jobs, external, startFs>>

\* line 83: os.system('mv smcTable0.txt <smc_table>')
D_MoveInitTable ==
    /\ dpc = "moveInitTable"
    /\ tables' = [tables EXCEPT ![0] = cwdTable]
    /\ cwdTable' = <<>>
    /\ dpc' = "checkSim"
    /\ UNCHANGED <<filterVars, cfg, standaloneVars, kills, iteration, sample, runs, log, dataFile, statsFiles,
                   simDirs, scripts, jobs, external, startFs>>

\* line 86: glob.glob(output_dir_iter + "/data_0_*.txt")
HasFirstData(dir) == dir.exists /\ dir.data[1] # <<>>

\* lines 88-91 taken whatever the directory holds
D_CheckSimAlways ==
    /\ dpc = "checkSim"
    /\ dpc' = "runSimulations"
    /\ simDirs' = [simDirs EXCEPT ![iteration] = NoDir]
    /\ jobs' = {job \in jobs : job[1] # iteration}
    /\ log' = [log EXCEPT !.gateway = @ \cup {iteration}]
    /\ UNCHANGED <<filterVars, cfg, standaloneVars, kills, iteration, sample, runs, dataFile, statsFiles, tables, cwdTable,
                   scripts, external, startFs>>

\* line 86 testing for the directory instead of its first data file
D_CheckSimByDir ==
    /\ dpc = "checkSim"
    /\ IF simDirs[iteration].exists
       THEN /\ dpc' = "checkNext"
            /\ UNCHANGED <<simDirs, jobs, log>>
       ELSE /\ dpc' = "runSimulations"
            /\ simDirs' = [simDirs EXCEPT ![iteration] = NoDir]
            /\ jobs' = {job \in jobs : job[1] # iteration}
            /\ log' = [log EXCEPT !.gateway = @ \cup {iteration}]
    /\ UNCHANGED <<filterVars, cfg, standaloneVars, kills, iteration, sample, runs, dataFile, statsFiles, tables, cwdTable,
                   scripts, external, startFs>>

\* lines 86-91: simulation data found, or the directory removed; solver runs
\* still working in the removed directory can no longer leave a file in it
D_CheckSim ==
    /\ dpc = "checkSim"
    /\ IF HasFirstData(simDirs[iteration])
       THEN /\ dpc' = "checkNext"
            /\ UNCHANGED <<simDirs, jobs, log>>
       ELSE /\ dpc' = "runSimulations"
            /\ simDirs' = [simDirs EXCEPT ![iteration] = NoDir]
            /\ jobs' = {job \in jobs : job[1] # iteration}
            /\ log' = [log EXCEPT !.gateway = @ \cup {iteration}]
    /\ UNCHANGED <<filterVars, cfg, standaloneVars, kills, iteration, sample, runs, dataFile, statsFiles, tables, cwdTable,
                   scripts, external, startFs>>

\* runSimulations, cores = 0 and no nodes: every solver run is awaited
\* (simulate.py lines 105-110)
D_RunSerial ==
    /\ dpc = "runSimulations"
    /\ cfg.cores = 0 /\ ~cfg.nodes
    /\ simDirs' = [simDirs EXCEPT ![iteration] =
            [EmptyDir EXCEPT !.raw = [key \in Keys |-> SolverOutput(tables[iteration][key])]]]
    /\ sample' = 1
    /\ dpc' = "merge"
    /\ UNCHANGED <<filterVars, cfg, standaloneVars, kills, iteration, runs, log, dataFile, statsFiles, tables, cwdTable,
                   scripts, jobs, external, startFs>>

\* runSimulations, cores = 0 with nodes: every solver run is started in the
\* background over ssh (simulate.py lines 88-104)
D_RunNodes ==
    /\ dpc = "runSimulations"
    /\ cfg.cores = 0 /\ cfg.nodes
    /\ simDirs' = [simDirs EXCEPT ![iteration] = EmptyDir]
    /\ jobs' = jobs \cup {<<iteration, key>> : key \in Keys}
    /\ sample' = 1
    /\ dpc' = "merge"
    /\ UNCHANGED <<filterVars, cfg, standaloneVars, kills, iteration, runs, log, dataFile, statsFiles, tables, cwdTable,
                   scripts, external, startFs>>

\* runSimulations, cores > 0: run.sh is written into the directory and the
\* command files next to it (simulate.py lines 33-58, 78-87); without nodes
\* line 58 divides by len(nodes) = 0 after run.sh is begun
D_RunScript ==
    /\ dpc = "runSimulations"
    /\ cfg.cores > 0
    /\ simDirs' = [simDirs EXCEPT ![iteration] = [EmptyDir EXCEPT !.runsh = TRUE]]
    /\ IF cfg.nodes
       THEN scripts' = [scripts EXCEPT ![iteration] = TRUE] /\ dpc' = "merge"
       ELSE scripts' = scripts /\ dpc' = "failed"
    /\ sample' = 1
    /\ UNCHANGED <<filterVars, cfg, standaloneVars, kills, iteration, runs, log, dataFile, statsFiles, tables, cwdTable,
                   jobs, external, startFs>>

\* mergeOutputFiles, one sample per step: the solver output
\* of the sample is read and data_<key>_<params>.txt written; a missing
\* output raises
D_Merge ==
    /\ dpc = "merge"
    /\ IF sample > NumSamples
       THEN dpc' = "checkNext" /\ UNCHANGED <<simDirs, sample>>
       ELSE IF simDirs[iteration].raw[sample] = <<>>
       THEN dpc' = "failed" /\ UNCHANGED <<simDirs, sample>>
       ELSE /\ simDirs' = [simDirs EXCEPT ![iteration].data[sample] =
                    <<tables[iteration][sample], simDirs[iteration].raw[sample]>>]
            /\ sample' = sample + 1
            /\ dpc' = "merge"
    /\ UNCHANGED <<filterVars, cfg, standaloneVars, kills, iteration, runs, log, dataFile, statsFiles, tables, cwdTable,
                   scripts, jobs, external, startFs>>

\* the filter variables before any filter object exists
NoFilter ==
    NewFilter(0, 0, <<1>>, <<<<0>>>>, <<<<<<0>>>>>>, <<<<0>>>>, FALSE, <<1>>)

\* calibrate() returns or an exception leaves it: the process ends, and its
\* filter object and loop variables with it
ProcessEnds ==
    /\ dpc' = "idle"
    /\ iteration' = 0
    /\ sample' = 1
    /\ FilterBecomes(NoFilter)

\* line 67: the next iteration, or the return of calibrate()
NextIteration ==
    IF iteration + 1 < NumIterations
    THEN /\ iteration' = iteration + 1
         /\ dpc' = "initTable"
         /\ UNCHANGED <<filterVars, sample>>
    ELSE ProcessEnds

\* smc.getYadeDataFiles: the data files of the directory in the order of
\* their keys
RECURSIVE FilesFrom(_, _)
FilesFrom(dir, key) ==
    IF key > NumSamples THEN <<>>
    ELSE (IF dir.data[key] = <<>> THEN <<>> ELSE <<dir.data[key]>>)
            \o FilesFrom(dir, key + 1)

getYadeDataFiles(dir) == FilesFrom(dir, 1)

\* smc.py lines 345-346: (file - x) / x < 1e-10 for one parameter; on integers the
\* quotient is below the tolerance exactly when it is not positive; for x = 0
\* the quotient is NaN (compares false) or an infinity of the sign of the
\* file's value
BelowTolerance(fileValue, x) ==
    IF x = 0 THEN fileValue < 0 ELSE (fileValue - x) * x <= 0

\* smc.checkParamsError: every file name matches the sample row of its position
checkParamsError(files, samples) ==
    \A i \in 1..Len(files) :
        \A j \in 1..Len(samples[i]) : BelowTolerance(files[i][1][j], samples[i][j])

\* smc.getYadeData: the series of the i-th file goes to sample i; samples
\* without a file keep the zeros of np.zeros
getYadeData(files, nSteps) ==
    [i \in Keys |-> IF i <= Len(files) THEN files[i][2] ELSE [t \in 1..nSteps |-> 0]]

\* lines 98-108 taken without the test of line 96
D_CheckNextAlways ==
    /\ dpc = "checkNext"
    /\ log' = [log EXCEPT !.filter = @ \cup {iteration}]
    /\ FilterBecomes(NewFilter(cfg.sigma_max, cfg.ess_min, MeasurementWeights,
            tables[iteration],
            TensorOf(getYadeData(getYadeDataFiles(simDirs[iteration]), NumSteps), NumSteps, 1),
            MeasurementData, FALSE, [i \in Keys |-> 1]))
    /\ dpc' = "filter"
    /\ UNCHANGED <<cfg, standaloneVars, kills, iteration, sample, runs, fsVars, external, startFs>>

\* lines 96-108: the filter is built from the table and the data files, or
\* the iteration is left alone
D_CheckNext ==
    /\ dpc = "checkNext"
    /\ IF tables[iteration + 1] = <<>> \/ cfg.analysis
       THEN /\ log' = [log EXCEPT !.filter = @ \cup {iteration}]
            /\ IF checkParamsError(getYadeDataFiles(simDirs[iteration]), tables[iteration])
               THEN /\ FilterBecomes(NewFilter(cfg.sigma_max, cfg.ess_min, MeasurementWeights,
                            tables[iteration],
                            TensorOf(getYadeData(getYadeDataFiles(simDirs[iteration]), NumSteps),
                                     NumSteps, 1),
                            MeasurementData, FALSE, [i \in Keys |-> 1]))
                    /\ dpc' = "filter"
               ELSE /\ UNCHANGED filterVars
                    /\ dpc' = "failed"
            /\ UNCHANGED <<iteration, sample>>
       ELSE /\ NextIteration
            /\ UNCHANGED log
    /\ UNCHANGED <<cfg, standaloneVars, kills, runs, fsVars, external, startFs>>

\* line 110: smc.resampleParams writes the table of the next iteration as
\* ./smcTable0.txt; an exception of runESSLoop ends the invocation instead
D_Resample ==
    /\ dpc = "filter"
    /\ fpc \in {"returned", "raised"}
    /\ IF fpc = "returned"
       THEN /\ \E drawn \in ResampledTables : cwdTable' = drawn
            /\ dpc' = "moveNext"
       ELSE /\ cwdTable' = cwdTable
            /\ dpc' = "failed"
    /\ UNCHANGED <<filterVars, cfg, standaloneVars, kills, iteration, sample, runs, log, dataFile, statsFiles, tables,
                   simDirs, scripts, jobs, external, startFs>>

\* line 117 taken without the test of line 113
D_MoveNextOverwrite ==
    /\ dpc = "moveNext"
    /\ tables' = [tables EXCEPT ![iteration + 1] = cwdTable]
    /\ cwdTable' = <<>>
    /\ NextIteration
    /\ UNCHANGED <<cfg, standaloneVars, kills, runs, log, dataFile, statsFiles, simDirs, scripts, jobs, external, startFs>>

\* lines 113-117: the new table becomes smc_table<k+1>.txt unless that exists
D_MoveNext ==
    /\ dpc = "moveNext"
    /\ IF tables[iteration + 1] # <<>>
       THEN UNCHANGED <<tables, cwdTable>>
       ELSE /\ tables' = [tables EXCEPT ![iteration + 1] = cwdTable]
            /\ cwdTable' = <<>>
    /\ NextIteration
    /\ UNCHANGED <<cfg, standaloneVars, kills, runs, log, dataFile, statsFiles, simDirs, scripts, jobs, external, startFs>>

\* an exception left calibrate(): the process has ended
D_Exit ==
    /\ dpc = "failed"
    /\ ProcessEnds
    /\ UNCHANGED <<cfg, standaloneVars, kills, runs, log, fsVars, external, startFs>>

\* the process is killed between two of its file operations: it ends where
\* it is and the files stay as they are
Kill ==
    /\ dpc \notin {"idle", "failed"}
    /\ kills < MaxKills
    /\ kills' = kills + 1
    /\ ProcessEnds
    /\ UNCHANGED <<cfg, standaloneVars, runs, log, fsVars, external, startFs>>

\* runESSLoop inside smcTest.run() (line 108); the driver never passes a
\* proposal file, so only the plain branch runs
D_Filter ==
    /\ dpc = "filter"
    /\ \/ ESS_EvalMin
       \/ ESS_EvalMax
       \/ ESS_Relax
       \/ ESS_SameSign
       \/ ESS_Reinit
       \/ ESS_Prompt
       \/ ESS_PromptEOF
       \/ ESS_Solve
       \/ ESS_Commit

\* a solver run started on a node ends and leaves its output file, if the
\* directory it was started in still exists
JobFinish ==
    /\ \E job \in jobs :
        /\ jobs' = jobs \ {job}
        /\ IF simDirs[job[1]].exists
           THEN simDirs' = [simDirs EXCEPT ![job[1]].raw[job[2]] =
                                SolverOutput(tables[job[1]][job[2]])]
           ELSE simDirs' = simDirs
    /\ external' = TRUE
    /\ UNCHANGED <<filterVars, procVars, standaloneVars, dataFile, statsFiles, tables, cwdTable, scripts, startFs>>

\* script mode: between two invocations the operator runs run.sh and the
\* solvers write every output file into the directory
ExternalSimulations ==
    /\ dpc = "idle"
    /\ \E k \in Iterations :
        /\ simDirs[k].exists /\ simDirs[k].runsh /\ scripts[k]
        /\ simDirs[k].raw = NoFiles
        /\ simDirs' = [simDirs EXCEPT ![k].raw =
                            [key \in Keys |-> SolverOutput(tables[k][key])]]
    /\ external' = TRUE
    /\ UNCHANGED <<filterVars, procVars, standaloneVars, dataFile, statsFiles, tables, cwdTable, scripts, jobs, startFs>>

\* between two invocations the operator deletes the data files of one
\* simulation directory
ExternalDeleteData ==
    /\ dpc = "idle"
    /\ \E k \in Iterations :
        /\ simDirs[k].data # NoFiles
        /\ simDirs' = [simDirs EXCEPT ![k].data = NoFiles]
    /\ external' = TRUE
    /\ UNCHANGED <<filterVars, procVars, standaloneVars, dataFile, statsFiles, tables, cwdTable, scripts, jobs, startFs>>

\* between two invocations the operator replaces the rows of the parameter
\* table of a directory that holds data files, as the only change of that
\* pause; smc.getParamsFromTable reads whatever the file holds
ExternalReplaceTable ==
    /\ dpc = "idle"
    /\ ~external
    /\ \E k \in Iterations, table \in ResampledTables :
        /\ tables[k] \notin {<<>>, table}
        /\ simDirs[k].data # NoFiles
        /\ tables' = [tables EXCEPT ![k] = table]
    /\ external' = TRUE
    /\ UNCHANGED <<filterVars, procVars, standaloneVars, dataFile, statsFiles, cwdTable, simDirs, scripts, jobs, startFs>>

InitDriver ==
    /\ InitDriverVars
    /\ FilterIs(NoFilter)

NextDriver ==
    \/ D_Start
    \/ D_InitTable
    \/ D_MoveInitTable
    \/ D_CheckSim
    \/ D_RunSerial
    \/ D_RunNodes
    \/ D_RunScript
    \/ D_Merge
    \/ D_CheckNext
    \/ D_Filter
    \/ D_Resample
    \/ D_MoveNext
    \/ D_Exit
    \/ Kill
    \/ JobFinish
    \/ ExternalSimulations
    \/ ExternalDeleteData
    \/ ExternalReplaceTable

SpecDriver == InitDriver /\ [][NextDriver]_vars

(***************************************************************************)
(* The serial gateway of one iteration on a supplied parameter table       *)
(***************************************************************************)
\* values a parameter may have in a table found in the working directory
SuppliedTables == [Keys -> {<<v>> : v \in {-1, 0, 1, 2}}]

\* the driver is started in a working directory that holds smc_table0.txt
\* and nothing else; simulations run in serial
InitMerge ==
    /\ cfg \in [cores : {0}, nodes : {FALSE}, analysis : BOOLEAN, sigma_max : {40},
                ess_min : EssTargets]
    /\ dpc = "idle"
    /\ iteration = 0
    /\ sample = 1
    /\ runs = 0
    /\ log = NoLog
    /\ kills = 0
    /\ dataFile = FALSE
    /\ statsFiles = FALSE
    /\ \E table \in SuppliedTables :
            tables = [k \in 0..NumIterations |-> IF k = 0 THEN table ELSE <<>>]
    /\ cwdTable = <<>>
    /\ simDirs = [k \in Iterations |-> NoDir]
    /\ scripts = [k \in Iterations |-> FALSE]
    /\ jobs = {}
    /\ external = TRUE
    /\ startFs = [files |-> <<>>, changed |-> FALSE]
    /\ NoStandalone
    /\ FilterIs(NoFilter)

\* calibrate() up to the construction of the filter of iteration 0
NextMerge ==
    \/ D_Start
    \/ D_InitTable
    \/ D_CheckSim
    \/ D_RunSerial
    \/ D_Merge
    \/ D_CheckNext

SpecMerge == InitMerge /\ [][NextMerge]_vars

\* C25 as stated: when the name of every data file of Sim{k} holds exactly
\* the parameter values of the table row of its position, as
\* mergeOutputFiles writes it, checkParamsError accepts the files and the
\* filter is built, for every parameter value including 0 and negative ones
C25_Original ==
    (/\ dpc \in {"filter", "failed"}
     /\ Len(getYadeDataFiles(simDirs[iteration])) = NumSamples
     /\ \A i \in Keys : getYadeDataFiles(simDirs[iteration])[i][1] = tables[iteration][i])
        => dpc = "filter"

(***************************************************************************)
(* Properties of the driver                                                *)
(***************************************************************************)
\* C4 as stated: the filter of iteration k+1 starts its search with the sigma
\* the filter of iteration k committed as its upper bound
C4_Original ==
    [][(dpc = "checkNext" /\ dpc' = "filter" /\ (iteration - 1) \in log.filter)
            => sigmaMax' = sigma]_vars

\* C11 as stated: when the driver returns from the last iteration the files
\* samples.txt, ips.txt and weights.txt exist in the output directory
C11_Original ==
    [][(dpc \notin {"idle", "failed"} /\ dpc' = "idle" /\ kills' = kills)
        => statsFiles']_vars

\* C12 as stated, for the serial gateway (where only a kill interrupts the
\* merge): the filter of iteration k is never built on a Sim{k} that lacks
\* the data file of a sample
C12_Original ==
    (cfg.cores = 0 /\ ~cfg.nodes /\ dpc = "filter") =>
        \A key \in Keys : simDirs[iteration].data[key] # <<>>

\* C13 as stated: the filter of iteration k is built only when the parameters
\* decoded from the name of every data file are those of the table row of
\* its position, whether the decoded value would be larger or smaller
C13_Original ==
    dpc = "filter" =>
        \A i \in 1..Len(getYadeDataFiles(simDirs[iteration])) :
            getYadeDataFiles(simDirs[iteration])[i][1] = tables[iteration][i]

\* C14 as stated: when Sim{k} holds the data file of some sample and lacks
\* that of another, the iteration fails before its filter is built
C14_Original ==
    [][(/\ dpc = "checkNext"
        /\ dpc' # dpc
        /\ kills' = kills
        /\ tables[iteration + 1] = <<>> \/ cfg.analysis
        /\ \E key \in Keys : simDirs[iteration].data[key] # <<>>
        /\ \E key \in Keys : simDirs[iteration].data[key] = <<>>)
        => dpc' = "failed"]_vars

\* C16 as stated: the filter of every iteration after the first takes its
\* proposal weights from a mixture file written by the iteration before
C16_Original ==
    (dpc = "filter" /\ iteration >= 1) => proposalFile

\* C20 as stated: the filter of a driver run has one observation column per
\* flattened measurement component, and the covariance entry of component j
\* is sigma times the weight of j times the square of its greatest value
C20_Original ==
    dpc = "filter" =>
        /\ numObs = Len(MeasurementWeights)
        /\ \A j \in 1..Len(MeasurementWeights) :
                getCovMatrix(sigma, 1, obsWeights)[j]
                    = sigma * MeasurementWeights[j] * Sq(MeasurementData[j][1])

\* C6 as stated: with X_{k+1} on disk and analysis false the driver passes
\* iteration k without invoking the gateway, without touching Sim{k} and
\* without filter or resampling, whatever Sim{k} holds
C6_Original ==
    [][(~cfg.analysis /\ tables[iteration + 1] # <<>> /\ dpc' # dpc /\ kills' = kills
            /\ dpc \in {"checkSim", "checkNext"})
        => /\ dpc' \in {"checkNext", "initTable", "idle"}
           /\ simDirs' = simDirs
           /\ log' = log]_vars

\* C6: with X_{k+1} on disk and analysis false the driver runs neither filter
\* nor resampling for iteration k and writes no table; Sim{k} is left alone
\* when it holds a data_0_* file, and is removed and requested again from the
\* gateway when it holds none
C6_SkipsFilterOnly ==
    [][(~cfg.analysis /\ tables[iteration + 1] # <<>> /\ dpc' # dpc /\ kills' = kills)
        => /\ dpc = "checkSim" =>
                IF HasFirstData(simDirs[iteration])
                THEN simDirs' = simDirs /\ log' = log /\ dpc' = "checkNext"
                ELSE /\ simDirs'[iteration] = NoDir
                     /\ log'.gateway = log.gateway \cup {iteration}
                     /\ dpc' = "runSimulations"
           /\ dpc = "checkNext" =>
                /\ dpc' \in {"initTable", "idle"}
                /\ log' = log
                /\ UNCHANGED fsVars]_vars

\* a second invocation that finished having requested simulations again and
\* run no filter, all tables being on disk
C6_Witness ==
    /\ dpc = "idle"
    /\ runs = 2
    /\ ~cfg.analysis
    /\ tables[NumIterations] # <<>>
    /\ log.gateway # {}
    /\ log.filter = {}

\* C7 as stated: an invocation that invokes the gateway for iteration k raises
\* no exception and runs no filter for k
C7_Original ==
    \A k \in log.gateway : dpc # "failed" /\ k \notin log.filter

\* C8 as stated: in script mode an invocation that starts with the request of
\* iteration k persisted and every solver output in Sim{k} does not request
\* the simulations of k again
C8_Original ==
    \A k \in Iterations :
        (/\ cfg.cores > 0
         /\ runs > 0
         /\ startFs.files[4][k].runsh
         /\ \A key \in Keys : startFs.files[4][k].raw[key] # <<>>)
        => k \notin log.gateway

\* every table and the first data file of every iteration were on disk when
\* the invocation started
StartComplete ==
    /\ runs > 0
    /\ \A k \in 0..NumIterations : startFs.files[2][k] # <<>>
    /\ \A k \in Iterations : HasFirstData(startFs.files[4][k])

\* nothing was requested or filtered and every file is as at the start
NoOp == log = NoLog /\ FileSystem = startFs.files

\* C9 as stated: a second invocation, the files not having been changed from
\* outside, invokes nothing and leaves every file as it was
C9_Original ==
    (runs >= 2 /\ kills = 0 /\ ~startFs.changed /\ ~external) => NoOp

\* C9: with analysis false, an invocation that starts with every table and
\* the first data file of every iteration on disk invokes no simulation, runs
\* no filter or resampling and leaves every file as it was
C9_NoOpWhenComplete ==
    (StartComplete /\ ~cfg.analysis /\ ~external) => NoOp

\* a second invocation that has ended after the first one completed the run
C9_Witness ==
    /\ runs = 2
    /\ dpc = "idle"
    /\ StartComplete
    /\ ~cfg.analysis
    /\ ~external
    /\ ~startFs.changed

\* every table was on disk when the invocation started, Sim{k} held no data
\* file and every other directory held its first one
StartAfterDelete(k) ==
    /\ runs > 0
    /\ \A j \in 0..NumIterations : startFs.files[2][j] # <<>>
    /\ startFs.files[4][k].exists
    /\ startFs.files[4][k].data = NoFiles
    /\ \A j \in Iterations \ {k} : HasFirstData(startFs.files[4][j])

\* C15: an invocation with analysis false that starts after a complete run
\* whose data files of Sim{k} were deleted requests simulations for no
\* iteration but k, has requested those of k when it ends without being
\* killed, and leaves every parameter table as it was
C15_GatewayOnlyForDeleted ==
    \A k \in Iterations :
        (StartAfterDelete(k) /\ ~cfg.analysis) =>
            /\ log.gateway \subseteq {k}
            /\ (dpc = "idle" /\ kills = 0) => k \in log.gateway
            /\ ~external => tables = startFs.files[2]

\* such an invocation has ended, for the last iteration
C15_Witness ==
    /\ dpc = "idle"
    /\ kills = 0
    /\ ~cfg.analysis
    /\ ~external
    /\ StartAfterDelete(NumIterations - 1)
    /\ startFs.changed
    /\ log.gateway = {NumIterations - 1}
    /\ \A key \in Keys : simDirs[NumIterations - 1].data[key] # <<>>

\* C10 as stated: with analysis and X_{k+1} on disk, the new table replaces
\* smc_table{k+1}.txt, Sim{k} is unchanged and no other file is left
C10_Original ==
    [][(cfg.analysis /\ dpc = "moveNext" /\ dpc' # dpc /\ kills' = kills
            /\ tables[iteration + 1] # <<>>)
        => /\ tables'[iteration + 1] = cwdTable
           /\ cwdTable' = <<>>
           /\ simDirs' = simDirs]_vars

\* C10: the table of iteration k+1 is found on disk after resampling only
\* with analysis; it is then left as it is and the new table stays in
\* ./smcTable0.txt; Sim{k} is unchanged when it holds a data_0_* file
C10_KeepsTable ==
    [][(dpc' # dpc /\ kills' = kills)
        => /\ (dpc = "moveNext" /\ tables[iteration + 1] # <<>>) =>
                /\ cfg.analysis
                /\ iteration \in log.filter
                /\ cwdTable \in ResampledTables
                /\ UNCHANGED <<tables, cwdTable, simDirs>>
           /\ (dpc = "checkSim" /\ HasFirstData(simDirs[iteration])) =>
                simDirs' = simDirs]_vars

\* a second invocation with analysis that has ended with a new table in
\* ./smcTable0.txt that differs from the last table on disk
C10_Witness ==
    /\ cfg.analysis
    /\ runs = 2
    /\ dpc = "idle"
    /\ log.filter = Iterations
    /\ cwdTable # <<>>
    /\ tables[NumIterations] # <<>>
    /\ cwdTable # tables[NumIterations]

(***************************************************************************)
(* The filter on its own: every input of the bounded sets                  *)
(***************************************************************************)
\* the driver variables of a filter used without the driver
NoDriver ==
    /\ cfg = [cores |-> 0, nodes |-> FALSE, analysis |-> FALSE, sigma_max |-> 0, ess_min |-> 0]
    /\ dpc = "filter"
    /\ iteration = 0
    /\ sample = 1
    /\ runs = 0
    /\ log = NoLog
    /\ kills = 0
    /\ dataFile = FALSE
    /\ statsFiles = FALSE
    /\ tables = [k \in 0..NumIterations |-> <<>>]
    /\ cwdTable = <<>>
    /\ simDirs = [k \in Iterations |-> NoDir]
    /\ scripts = [k \in Iterations |-> FALSE]
    /\ jobs = {}
    /\ external = FALSE
    /\ startFs = [files |-> <<>>, changed |-> FALSE]
    /\ NoStandalone

InitFilter ==
    /\ \E s \in SigmaMaxInputs, e \in EssTargets, pf \in BOOLEAN, n \in 1..NumSamples :
       \E model \in FilterModels(pf, n), samples \in SampleTables(n),
          series \in [1..n -> SimProfiles], obs \in ObsProfiles :
            FilterIs([NewFilter(s, e, <<1>>, samples,
                                TensorOf(series, NumSteps, 1), obs, pf,
                                initialProposal(pf, model, n))
                        EXCEPT !.proposalModel = model])
    /\ NoDriver

NextFilter == runESSLoop

SpecFilter == InitFilter /\ [][NextFilter]_vars

\* the positions at which runESSLoop takes its next step by itself: the
\* guards of every step but the answer to the prompt of line 424, where the
\* interpreter is blocked in input() until the operator has answered or
\* standard input is closed
ProgramCanStep ==
    fpc \in {"start", "evalMax", "relax", "reinit", "solve", "commit",
             "minimize", "afterMin", "rebracket"}

\* C23 as stated: runESSLoop comes to an end on every input without waiting
\* for an answer of the operator, also when the effective sample size at
\* sigmaMax is below the target: in every state it has ended or takes its
\* next step by itself
C23_Original == fpc \in {"returned", "raised"} \/ ProgramCanStep

(***************************************************************************)
(* smc.initialize with a proposal file, for every mixture and cell volumes *)
(***************************************************************************)
\* lines 205-211: self.proposal is set, or loadProposalFromFile raises
initialize ==
    /\ fpc = "initialize"
    /\ IF proposalFile /\ loadProposalFromFile(proposalModel).raised
       THEN fpc' = "ValueError" /\ UNCHANGED proposal
       ELSE /\ fpc' = "start"
            /\ proposal' = initialProposal(proposalFile, proposalModel, numSamples)
    /\ UNCHANGED <<smcVars, ess, proposalFile, proposalModel, smcSamples, yadeData, obsData,
                   obsWeights, obsCtrlData, reverse, arrayVars, evalSigmaMin, evalSigmaMax,
                   ess0, sigmaStar>>
    /\ UNCHANGED driverVars

InitProposal ==
    /\ \E n \in 1..NumSamples, pf \in BOOLEAN :
       \E model \in IF pf THEN ProposalModels(n) ELSE {NoModel} :
            FilterAt([NewFilter(1, 1, <<1>>, [i \in 1..n |-> <<i>>],
                                TensorOf([i \in 1..n |-> [t \in 1..NumSteps |-> 0]], NumSteps, 1),
                                MeasurementData, pf, <<>>)
                        EXCEPT !.proposalModel = model],
                     "initialize")
    /\ NoDriver

NextProposal == initialize

SpecProposal == InitProposal /\ [][NextProposal]_vars

(***************************************************************************)
(* smc.run with the time axis reversed                                     *)
(***************************************************************************)
\* x[::-1]: the sequence from its last entry to its first
Reversed(x) == [t \in 1..Len(x) |-> x[Len(x) + 1 - t]]

\* smc.run, lines 321-325: with reverse the control data, the observations
\* and the simulation data are flipped along the time axis before
\* runESSLoop; None[::-1] raises TypeError before anything is flipped
run ==
    /\ fpc = "run"
    /\ IF reverse
       THEN IF obsCtrlData = None
            THEN /\ fpc' = "TypeError"
                 /\ UNCHANGED <<obsCtrlData, obsData, yadeData>>
            ELSE /\ obsCtrlData' = Reversed(obsCtrlData)
                 /\ obsData' = Reversed(obsData)
                 /\ yadeData' = Reversed(yadeData)
                 /\ fpc' = "start"
       ELSE /\ fpc' = "start"
            /\ UNCHANGED <<obsCtrlData, obsData, yadeData>>
    /\ UNCHANGED <<smcVars, ess, proposalFile, proposal, proposalModel, smcSamples, obsWeights,
                   reverse, arrayVars, evalSigmaMin, evalSigmaMax, ess0, sigmaStar>>
    /\ UNCHANGED driverVars

\* the control sequence of an observation file with keys: one value per step
ControlData == [t \in 1..NumSteps |-> t]

\* a filter whose data are loaded, from an observation file with or without
\* keys, about to reach line 321 with either value of reverse
InitRun ==
    /\ \E s \in SigmaMaxInputs, e \in EssTargets, pf \in BOOLEAN, n \in 1..NumSamples :
       \E model \in FilterModels(pf, n), samples \in SampleTables(n),
          series \in [1..n -> SimProfiles], obs \in ObsProfiles,
          ctrl \in {None, ControlData}, rev \in BOOLEAN :
            FilterAt([NewFilter(s, e, <<1>>, samples,
                                TensorOf(series, NumSteps, 1), obs, pf,
                                initialProposal(pf, model, n))
                        EXCEPT !.proposalModel = model, !.obsCtrlData = ctrl, !.reverse = rev],
                     "run")
    /\ NoDriver

NextRun ==
    \/ run
    \/ runESSLoop

SpecRun == InitRun /\ [][NextRun]_vars

\* C24 as stated: run(reverse=True) completes for observation files with
\* and without keys, and the arrays it leaves are those of the same update
\* on the inputs with the time axis reversed
C24_Original ==
    (reverse /\ fpc # "run") =>
        /\ fpc # "TypeError"
        /\ fpc = "returned" => Arrays = FilterSteps(sigma, 1, <<>>)

(***************************************************************************)
(* The readers of one parameter table file                                 *)
(***************************************************************************)
\* one reader is called on the file and what it returns is kept
Read(reader, result) ==
    /\ ~readings[reader].done
    /\ readings' = [readings EXCEPT ![reader] = result]
    /\ UNCHANGED <<filterVars, procVars, fsVars, external, startFs, tableFile, drivers>>

\* the driver variables of a table read without the driver
NoProcess ==
    /\ cfg = [cores |-> 0, nodes |-> FALSE, analysis |-> FALSE, sigma_max |-> 0, ess_min |-> 0]
    /\ dpc = "idle"
    /\ iteration = 0
    /\ sample = 1
    /\ runs = 0
    /\ log = NoLog
    /\ kills = 0
    /\ dataFile = FALSE
    /\ statsFiles = FALSE
    /\ tables = [k \in 0..NumIterations |-> <<>>]
    /\ cwdTable = <<>>
    /\ simDirs = [k \in Iterations |-> NoDir]
    /\ scripts = [k \in Iterations |-> FALSE]
    /\ jobs = {}
    /\ external = FALSE
    /\ startFs = [files |-> <<>>, changed |-> FALSE]

\* any file of up to MaxLines lines; the files writeToTable writes for one
\* and for two samples are among them
InitTable ==
    /\ tableFile \in TableFiles
    /\ readings = NotRead
    /\ drivers = NoDrivers
    /\ NoProcess
    /\ FilterIs(NoFilter)

NextTable ==
    \/ Read("getParamsFromTable", getParamsFromTable(tableFile))
    \/ Read("runSimulations", runSimulations(tableFile))
    \/ Read("mergeOutputFiles", mergeOutputFiles(tableFile))
    \/ Read("numberOfCommands", numberOfCommands(tableFile))

SpecTable == InitTable /\ [][NextTable]_vars

\* every reader has been called on the file
AllRead == \A reader \in Readers : readings[reader].done

\* no reader raised, the filter and the two loops of the simulator have the
\* same lines in the same order, and the number of commands is their number
SameRows ==
    /\ \A reader \in Readers : ~readings[reader].raised
    /\ readings["runSimulations"].lines = readings["getParamsFromTable"].lines
    /\ readings["mergeOutputFiles"].lines = readings["getParamsFromTable"].lines
    /\ readings["numberOfCommands"].count = readings["getParamsFromTable"].count

WrittenTable ==
    /\ Len(tableFile) >= 3
    /\ tableFile = writeToTable(RowsOf(Tail(tableFile)))

ValuesOf(d) == IF d = 1 THEN {1, 2} ELSE {3, 4}

\* the table of the Halton bootstrap of process d
HaltonTableOf(d) == [i \in Keys |-> <<MinOf(ValuesOf(d))>>]

\* tables a draw from the mixture fitted by process d may give
ResampledTablesOf(d) == {[i \in Keys |-> <<v>>] : v \in ValuesOf(d)}

\* line 67 for process d: the next iteration, or the return of calibrate()
NextIterationOf(d) ==
    IF drivers[d].iteration + 1 < NumIterations
    THEN [pc |-> "initTable", iteration |-> drivers[d].iteration + 1]
    ELSE [pc |-> "done", iteration |-> drivers[d].iteration]

\* what a step of process d leaves alone besides ./smcTable0.txt and its own
\* record
OnlyDrivers ==
    UNCHANGED <<filterVars, procVars, dataFile, statsFiles, tables, simDirs, scripts, jobs,
                external, startFs, tableFile, readings>>

\* lines 76-82: the first table is generated as ./smcTable0.txt
P_InitTable(d) ==
    /\ drivers[d].pc = "initTable"
    /\ IF drivers[d].iteration = 0 /\ drivers[d].tables[0] = <<>>
       THEN /\ cwdTable' = HaltonTableOf(d)
            /\ drivers' = [drivers EXCEPT ![d].pc = "moveInitTable",
                                          ![d].made = @ \cup {HaltonTableOf(d)}]
       ELSE /\ cwdTable' = cwdTable
            /\ drivers' = [drivers EXCEPT ![d].pc = "simulate"]
    /\ OnlyDrivers

\* line 83: os.system('mv smcTable0.txt <smc_table>'); when the file is not
\* there mv fails and os.system returns its status, which is not looked at
P_MoveInitTable(d) ==
    /\ drivers[d].pc = "moveInitTable"
    /\ IF cwdTable # <<>>
       THEN /\ drivers' = [drivers EXCEPT ![d].pc = "simulate", ![d].tables[0] = cwdTable]
            /\ cwdTable' = <<>>
       ELSE /\ drivers' = [drivers EXCEPT ![d].pc = "simulate"]
            /\ cwdTable' = cwdTable
    /\ OnlyDrivers

\* lines 86-94: the simulations of the iteration run in Sim<k> of the
\* work_dir; runSimulations raises when the table does not exist
\* (simulate.py lines 29-30)
P_Simulate(d) ==
    /\ drivers[d].pc = "simulate"
    /\ drivers' = [drivers EXCEPT ![d].pc =
            IF drivers[d].tables[drivers[d].iteration] = <<>> THEN "failed" ELSE "checkNext"]
    /\ cwdTable' = cwdTable
    /\ OnlyDrivers

\* lines 96-110, analysis false: the filter runs on the files of the
\* work_dir and smc.resampleParams writes the next table as ./smcTable0.txt
P_Resample(d) ==
    /\ drivers[d].pc = "checkNext"
    /\ IF drivers[d].tables[drivers[d].iteration + 1] = <<>>
       THEN \E drawn \in ResampledTablesOf(d) :
                /\ cwdTable' = drawn
                /\ drivers' = [drivers EXCEPT ![d].pc = "moveNext",
                                              ![d].made = @ \cup {drawn}]
       ELSE /\ cwdTable' = cwdTable
            /\ drivers' = [drivers EXCEPT ![d].pc = NextIterationOf(d).pc,
                                          ![d].iteration = NextIterationOf(d).iteration]
    /\ OnlyDrivers

\* lines 113-117: os.system('mv smcTable0.txt <smc_table_next>') unless the
\* next table exists
P_MoveNext(d) ==
    /\ drivers[d].pc = "moveNext"
    /\ IF drivers[d].tables[drivers[d].iteration + 1] = <<>> /\ cwdTable # <<>>
       THEN /\ drivers' = [drivers EXCEPT ![d].pc = NextIterationOf(d).pc,
                                          ![d].iteration = NextIterationOf(d).iteration,
                                          ![d].tables[drivers[d].iteration + 1] = cwdTable]
            /\ cwdTable' = <<>>
       ELSE /\ drivers' = [drivers EXCEPT ![d].pc = NextIterationOf(d).pc,
                                          ![d].iteration = NextIterationOf(d).iteration]
            /\ cwdTable' = cwdTable
    /\ OnlyDrivers

\* both processes have been started in the same current directory, each
\* with an empty work_dir of its own
InitDrivers ==
    /\ drivers = [d \in DriverIds |->
                    [pc |-> "initTable", iteration |-> 0,
                     tables |-> [k \in 0..NumIterations |-> <<>>], made |-> {}]]
    /\ tableFile = <<>>
    /\ readings = NotRead
    /\ NoProcess
    /\ FilterIs(NoFilter)

NextDrivers ==
    \E d \in DriverIds :
        \/ P_InitTable(d)
        \/ P_MoveInitTable(d)
        \/ P_Simulate(d)
        \/ P_Resample(d)
        \/ P_MoveNext(d)

SpecDrivers == InitDrivers /\ [][NextDrivers]_vars

\* C27 as stated: under every interleaving of the two processes each table
\* smc_table{k}.txt of a work_dir is a table the process of that work_dir
\* has generated or resampled
C27_Original ==
    \A d \in DriverIds : \A k \in 0..NumIterations :
        drivers[d].tables[k] # <<>> => drivers[d].tables[k] \in drivers[d].made

====
